---- MODULE Spec2Model ----
(***************************************************************************)
(* SubscriptProxy: a Proxy inserted in the prototype chain of a target     *)
(* object.  The model follows SubscriptProxy.applyTo, _getRelevantKeys and *)
(* the three traps (get / has / ownKeys), together with the parts of the   *)
(* JavaScript object model those lines rely on (prototype walk, Proxy      *)
(* forwarding, Object.fromEntries, Object.assign, instanceof).             *)
(***************************************************************************)
EXTENDS Integers, Sequences, FiniteSets, TLC

VARIABLES layers, live, op, result

vars == <<layers, live, op, result>>

(***************************************************************************)
(* Bounds                                                                  *)
(***************************************************************************)
MaxLayers == 2
MaxLen == 2

(***************************************************************************)
(* Marker keys                                                             *)
(***************************************************************************)
ALL == "*"
GENFN == "**"

(***************************************************************************)
(* JavaScript values                                                       *)
(***************************************************************************)
Undef == [t |-> "undefined"]
Null == [t |-> "null"]
Str(s) == [t |-> "str", v |-> s]
Num(n) == [t |-> "num", v |-> n]
NaN == [t |-> "nan"]
Fn(id) == [t |-> "fn", id |-> id]
GenFn == [t |-> "genfn"]
BoundGen == [t |-> "boundGen"]
BoundBuiltin == [t |-> "boundBuiltin"]
ReflectGet == [t |-> "reflectGet"]
Wrap(h) == [t |-> "wrap", h |-> h]
GenObj == [t |-> "generator"]
TypeError == [t |-> "TypeError"]
Bool(b) == [t |-> "bool", v |-> b]
KeyList(s) == [t |-> "keys", v |-> s]
Handle(n) == [t |-> "handle", i |-> n]
ArrayVal == [t |-> "array"]
Called(f, target, key, receiver) ==
    [t |-> "call", f |-> f, target |-> target, key |-> key, receiver |-> receiver]

\* is.fn: typeof value === 'function'
IsFn(v) == v.t \in {"fn", "genfn", "boundGen", "boundBuiltin", "reflectGet", "wrap"}

\* is.genFn: a function whose prototype chain holds GeneratorFunction.prototype.
\* A bound function takes the prototype of the function it binds, so the bound
\* iterator method of a Map or an Array (a builtin) is not one, and the bound
\* generator method of a user iterable is.
IsGenFn(v) == IsFn(v) /\ v.t \in {"genfn", "boundGen"}

Nullish(v) == v.t \in {"undefined", "null"}

\* ToBoolean, for `if (handler)`: undefined, null, false, 0, NaN and '' are
\* falsy, every other value is truthy
Truthy(v) ==
    /\ ~Nullish(v)
    /\ v.t # "nan"
    /\ v.t = "bool" => v.v
    /\ v.t = "num" => v.v # 0
    /\ v.t = "str" => v.v # ""

(***************************************************************************)
(* Objects of the prototype chain                                          *)
(***************************************************************************)
Nil == [o |-> "null", i |-> 0]
T == [o |-> "T", i |-> 0]
P0 == [o |-> "P0", i |-> 0]
OP == [o |-> "OP", i |-> 0]
CopyObj(n) == [o |-> "copy", i |-> n]
ProxyObj(n) == [o |-> "proxy", i |-> n]

\* own properties of the target, of its constructor's prototype, and of
\* Object.prototype
TOwn == <<[k |-> "own", v |-> Str("original value")]>>
P0Own == <<[k |-> "inh", v |-> Str("inherited value")]>>
OPOwn == <<[k |-> "toString", v |-> Fn("toString")]>>

\* user functions: "f" answers every key, "h" answers only the keys of HKeys
HKeys == {"b", "own"}

(***************************************************************************)
(* Key/value lists (objects as ordered lists of own properties)            *)
(***************************************************************************)
Includes(ks, key) == \E i \in 1..Len(ks) : ks[i] = key

\* the integer-like keys (array indices) of the model, ascending
IndexKeys == <<"0", "1", "2", "3">>

\* Reflect.ownKeys(obj) / Object.keys(obj): the integer-like keys first, in
\* ascending order, then the other string keys in the order they were created
KeysOf(ps) ==
    LET created == [i \in 1..Len(ps) |-> ps[i].k]
    IN  SelectSeq(IndexKeys, LAMBDA key : Includes(created, key))
        \o SelectSeq(created, LAMBDA key : ~Includes(IndexKeys, key))

HasKey(ps, key) == \E i \in 1..Len(ps) : ps[i].k = key

\* own property lookup (keys are unique in an object)
OwnValue(ps, key) == ps[CHOOSE i \in 1..Len(ps) : ps[i].k = key].v

\* obj[key] = value: overwrite in place, or append
SetKey(ps, key, val) ==
    IF HasKey(ps, key)
    THEN [i \in 1..Len(ps) |-> IF ps[i].k = key THEN [k |-> key, v |-> val] ELSE ps[i]]
    ELSE Append(ps, [k |-> key, v |-> val])

RECURSIVE AssignAll(_, _)
\* Object.assign(dst, src) / Object.fromEntries(pairs) over a list of pairs
AssignAll(dst, ps) ==
    IF ps = <<>> THEN dst
    ELSE AssignAll(SetKey(dst, Head(ps).k, Head(ps).v), Tail(ps))

FromEntries(ps) == AssignAll(<<>>, ps)

\* property read on a plain object literal ({}): own, else Object.prototype
PlainGet(ps, key) ==
    IF HasKey(ps, key) THEN OwnValue(ps, key)
    ELSE IF HasKey(OPOwn, key) THEN OwnValue(OPOwn, key)
    ELSE Undef

(***************************************************************************)
(* Source inputs and options of applyTo                                    *)
(*   [s |-> "array", elems |-> <<element, ...>>]  an Array; an element is  *)
(*        [e |-> "pair", k, v] (a 2-element array), [e |-> "str2"] (a      *)
(*        2-character string) or [e |-> "num"] (a number)                  *)
(*   [s |-> "fn", f |-> function]                 a callable               *)
(*   [s |-> "map"]      a Map holding the pairs of `live`                  *)
(*   [s |-> "geniter"]  an object whose Symbol.iterator is an inherited    *)
(*                      generator method yielding the pairs of `live`      *)
(*   [s |-> "baditer"]  an object whose Symbol.iterator is not callable    *)
(*   [s |-> "obj", pairs |-> <<[k, v], ...>>]     a plain mapping          *)
(*   [s |-> "prim"]     a primitive (number, string, null, undefined)      *)
(***************************************************************************)
ElemValue(e) ==
    IF e.e = "pair" THEN ArrayVal ELSE IF e.e = "str2" THEN Str("ab") ELSE Num(7)

PairsOf(elems) == [i \in 1..Len(elems) |-> [k |-> elems[i].k, v |-> elems[i].v]]

\* own enumerable properties of an Array: its indices
IndexProps(elems) == [i \in 1..Len(elems) |-> [k |-> IndexKeys[i], v |-> ElemValue(elems[i])]]

\* is.entries: an array all of whose elements have length == 2
IsEntries(src) ==
    /\ src.s = "array"
    /\ \A i \in 1..Len(src.elems) : src.elems[i].e \in {"pair", "str2"}

\* is.iteratorObj
IsIteratorObj(src) == src.s \in {"array", "map", "geniter", "baditer"}

\* is.obj
IsObj(src) == src.s \in {"array", "map", "geniter", "baditer", "obj"}

\* first element produced by value[Symbol.iterator]().next()
FirstIsPair(src, lv) ==
    IF src.s = "array" THEN Len(src.elems) > 0 /\ src.elems[1].e = "pair"
    ELSE Len(lv) > 0

\* is.entryIterator (TypeError when Symbol.iterator cannot be called)
IsEntryIterator(src, lv) ==
    IF ~IsIteratorObj(src) THEN Bool(FALSE)
    ELSE IF src.s = "baditer" THEN TypeError
    ELSE Bool(FirstIsPair(src, lv))

\* kvMapOrFunction[Symbol.iterator].bind(kvMapOrFunction)
BoundIterator(src) == IF src.s = "geniter" THEN BoundGen ELSE BoundBuiltin

\* Object.assign(keyValueMap, kvMapOrFunction): own enumerable properties
OwnEnumerable(src) ==
    IF src.s = "array" THEN IndexProps(src.elems)
    ELSE IF src.s = "obj" THEN src.pairs
    ELSE <<>>

\* Object.fromEntries(kvMapOrFunction): every entry must be an object
EntriesToMap(elems) ==
    IF \E i \in 1..Len(elems) : elems[i].e # "pair" THEN TypeError
    ELSE [t |-> "ok", kvm |-> FromEntries(PairsOf(elems))]

\* classification of kvMapOrFunction into keyValueMap (lines 78-90)
Normalize(src, lv) ==
    IF IsEntries(src) THEN EntriesToMap(src.elems)
    ELSE IF src.s = "fn" THEN [t |-> "ok", kvm |-> <<[k |-> ALL, v |-> src.f]>>]
    ELSE IF IsEntryIterator(src, lv) = TypeError THEN TypeError
    ELSE IF IsEntryIterator(src, lv) = Bool(TRUE)
         THEN [t |-> "ok", kvm |-> <<[k |-> GENFN, v |-> BoundIterator(src)]>>]
    ELSE IF IsObj(src) THEN [t |-> "ok", kvm |-> AssignAll(<<>>, OwnEnumerable(src))]
    ELSE [t |-> "ok", kvm |-> <<>>]

\* the fallback branch taken whatever the fallback option says
WithFallbackAlways(kvm, fallback) ==
    IF IsFn(PlainGet(kvm, ALL))
    THEN SetKey(kvm, ALL, Wrap(PlainGet(kvm, ALL)))
    ELSE SetKey(kvm, ALL, ReflectGet)

\* the fallback branch without the wrapper: a user handler is left as it is
WithFallbackUnwrapped(kvm, fallback) ==
    IF fallback /\ ~IsFn(PlainGet(kvm, ALL))
    THEN SetKey(kvm, ALL, ReflectGet)
    ELSE kvm

\* the fallback branch (lines 92-108)
WithFallback(kvm, fallback) ==
    IF fallback
    THEN IF IsFn(PlainGet(kvm, ALL))
         THEN SetKey(kvm, ALL, Wrap(PlainGet(kvm, ALL)))
         ELSE SetKey(kvm, ALL, ReflectGet)
    ELSE kvm

\* values of the except option: an Array of keys, null, undefined, or any
\* other value without a callable `some` ({}, a string, a number, a Set)
Except(ks) == [kind |-> "array", ks |-> ks]
ExceptNull == [kind |-> "null", ks |-> {}]
ExceptUndefined == [kind |-> "undefined", ks |-> {}]
ExceptNotArray == [kind |-> "other", ks |-> {}]

\* `except = []` in the destructuring: the default replaces undefined only
ExceptOrDefault(e) == IF e.kind = "undefined" THEN Except({}) ELSE e

DefaultOptions ==
    [fallback |-> TRUE, evalFns |-> TRUE,
     except |-> Except({}), copyParentProto |-> TRUE]

\* the options with evalFns left at its default whatever the caller passed
ResolveOptionsEvalDefault(o) ==
    IF o.given
    THEN [fallback |-> o.fallback, evalFns |-> TRUE,
          except |-> ExceptOrDefault(o.except), copyParentProto |-> o.copyParentProto]
    ELSE DefaultOptions

\* the options with fallback switched off whatever the caller passed
ResolveOptionsNoFallback(o) ==
    IF o.given
    THEN [fallback |-> FALSE, evalFns |-> o.evalFns,
          except |-> ExceptOrDefault(o.except), copyParentProto |-> o.copyParentProto]
    ELSE [DefaultOptions EXCEPT !.fallback = FALSE]

\* destructuring of the options argument with its defaults (lines 69-74)
ResolveOptions(o) ==
    IF o.given
    THEN [fallback |-> o.fallback, evalFns |-> o.evalFns,
          except |-> ExceptOrDefault(o.except), copyParentProto |-> o.copyParentProto]
    ELSE DefaultOptions

(***************************************************************************)
(* A layer is what one applyTo call leaves behind:                         *)
(*   kvm      instance.keyValueMap, as an ordered list of own properties   *)
(*   options  instance.options                                             *)
(*   under    the object the Proxy wraps (`prototype`)                     *)
(*   src      the kvMapOrFunction argument of the call                     *)
(*   opts     the options argument of the call                             *)
(* Layer n is reached through ProxyObj(n).                                 *)
(***************************************************************************)

\* Object.getPrototypeOf(target) when n layers are installed
TargetProto(n) == IF n = 0 THEN P0 ELSE ProxyObj(n)

\* the [[Prototype]] slot of an ordinary object
ProtoSlot(ls, obj) ==
    IF obj.o = "T" THEN TargetProto(Len(ls))
    ELSE IF obj.o = "P0" THEN OP
    ELSE IF obj.o = "copy" THEN TargetProto(obj.i - 1)
    ELSE Nil

OwnProps(obj) ==
    IF obj.o = "T" THEN TOwn
    ELSE IF obj.o = "P0" THEN P0Own
    ELSE IF obj.o = "OP" THEN OPOwn
    ELSE <<>>

\* the parent prototype reused whatever copyParentProto says
NewPrototypeShared(n, copyParentProto) == TargetProto(n - 1)

\* const prototype = copyParentProto ? Object.create(parent) : parent
NewPrototype(n, copyParentProto) ==
    IF copyParentProto THEN CopyObj(n) ELSE TargetProto(n - 1)

\* _getRelevantKeys with the exception filter inverted
RelevantKeysExceptInverted(L, lv) ==
    LET iterator  == PlainGet(L.kvm, GENFN)
        excepts   == IF L.options.except.kind \in {"null", "undefined"}
                     THEN Except({}) ELSE L.options.except
        gentries  == IF IsGenFn(iterator) THEN lv ELSE <<>>
        genObject == FromEntries(gentries)
        own       == KeysOf(L.kvm)
    IN  IF excepts.kind # "array" /\ Len(own) > 0 THEN TypeError
        ELSE [t |-> "ok",
              keys |-> SelectSeq(SelectSeq(own, LAMBDA key : key \in excepts.ks),
                                 LAMBDA key : key # ALL /\ key # GENFN)
                       \o KeysOf(genObject),
              genObject |-> genObject]

\* _getRelevantKeys(instance): `?? []` replaces a null except, and
\* excepts.some is called once for every own key of keyValueMap
RelevantKeys(L, lv) ==
    LET iterator  == PlainGet(L.kvm, GENFN)
        excepts   == IF L.options.except.kind \in {"null", "undefined"}
                     THEN Except({}) ELSE L.options.except
        gentries  == IF IsGenFn(iterator) THEN lv ELSE <<>>
        genObject == FromEntries(gentries)
        own       == KeysOf(L.kvm)
    IN  IF excepts.kind # "array" /\ Len(own) > 0 THEN TypeError
        ELSE [t |-> "ok",
              keys |-> SelectSeq(SelectSeq(own, LAMBDA key : key \notin excepts.ks),
                                 LAMBDA key : key # ALL /\ key # GENFN)
                       \o KeysOf(genObject),
              genObject |-> genObject]

RECURSIVE Get(_, _, _, _)
RECURSIVE GetTrap(_, _, _, _)
RECURSIVE Invoke(_, _, _, _, _)

\* calling a function value with (target, property, receiver); receiver is T
Invoke(ls, lv, f, target, key) ==
    IF f.t = "fn"
    THEN IF f.id = "h" /\ key \notin HKeys THEN Undef
         ELSE Called(f.id, target, key, T)
    ELSE IF f.t = "reflectGet" THEN Get(ls, lv, target, key)
    ELSE IF f.t = "wrap"
    THEN LET response == Invoke(ls, lv, f.h, target, key)
         IN  IF response = Undef THEN Get(ls, lv, target, key) ELSE response
    ELSE GenObj

\* the get trap of layer n
GetTrap(ls, lv, n, property) ==
    LET instance == ls[n]
        handler  == PlainGet(instance.kvm, ALL)
        rk       == RelevantKeys(instance, lv)
    IN  IF rk.t = "TypeError" THEN TypeError
        ELSE IF Includes(rk.keys, property)
        THEN LET mapped == PlainGet(instance.kvm, property)
                 value  == IF Nullish(mapped) THEN PlainGet(rk.genObject, property)
                           ELSE mapped
             IN  IF instance.options.evalFns /\ IsFn(value)
                 THEN Invoke(ls, lv, value, instance.under, property)
                 ELSE value
        ELSE IF Truthy(handler)
        THEN IF IsFn(handler)
             THEN Invoke(ls, lv, handler, instance.under, property)
             ELSE TypeError
        ELSE Undef

\* obj[property] with receiver T: [[Get]] of ordinary objects and of proxies
Get(ls, lv, obj, property) ==
    IF obj.o = "null" THEN Undef
    ELSE IF obj.o = "proxy" THEN GetTrap(ls, lv, obj.i, property)
    ELSE IF HasKey(OwnProps(obj), property) THEN OwnValue(OwnProps(obj), property)
    ELSE Get(ls, lv, ProtoSlot(ls, obj), property)

RECURSIVE Has(_, _, _, _)
RECURSIVE HasTrap(_, _, _, _)

\* the has trap without the Reflect.has(target, property) alternative
HasTrapKeysOnly(ls, lv, n, property) ==
    LET rk == RelevantKeys(ls[n], lv)
    IN  IF rk.t = "TypeError" THEN TypeError
        ELSE Bool(Includes(rk.keys, property))

\* the has trap of layer n
HasTrap(ls, lv, n, property) ==
    LET instance == ls[n]
        rk       == RelevantKeys(instance, lv)
    IN  IF rk.t = "TypeError" THEN TypeError
        ELSE IF Includes(rk.keys, property) THEN Bool(TRUE)
        ELSE Has(ls, lv, instance.under, property)

\* property in obj: [[HasProperty]] of ordinary objects and of proxies
Has(ls, lv, obj, property) ==
    IF obj.o = "null" THEN Bool(FALSE)
    ELSE IF obj.o = "proxy" THEN HasTrap(ls, lv, obj.i, property)
    ELSE IF HasKey(OwnProps(obj), property) THEN Bool(TRUE)
    ELSE Has(ls, lv, ProtoSlot(ls, obj), property)

\* the ownKeys trap of layer n
OwnKeysTrap(ls, lv, n) ==
    LET rk == RelevantKeys(ls[n], lv)
    IN  IF rk.t = "TypeError" THEN TypeError ELSE KeyList(rk.keys)

HasDuplicates(ks) == \E i, j \in 1..Len(ks) : i < j /\ ks[i] = ks[j]

RECURSIVE ProxyOwnKeys(_, _, _)
\* Reflect.ownKeys(instance.proxy): the trap result, which the Proxy rejects
\* with a TypeError when it lists a key twice; the Proxy then asks its target
\* for its own keys, which is the layer below when the target is a Proxy
ProxyOwnKeys(ls, lv, n) ==
    LET trapResult == OwnKeysTrap(ls, lv, n)
        target     == ls[n].under
    IN  IF trapResult.t = "TypeError" THEN TypeError
        ELSE IF HasDuplicates(trapResult.v) THEN TypeError
        ELSE IF target.o = "proxy" /\ ProxyOwnKeys(ls, lv, target.i).t = "TypeError"
        THEN TypeError
        ELSE trapResult

RECURSIVE GetPrototypeOf(_, _)
\* [[GetPrototypeOf]]: a Proxy without that trap forwards to its target
GetPrototypeOf(ls, obj) ==
    IF obj.o = "proxy" THEN GetPrototypeOf(ls, ls[obj.i].under)
    ELSE ProtoSlot(ls, obj)

RECURSIVE ChainHas(_, _, _)
\* OrdinaryHasInstance: is `proto` met when walking the chain above obj
ChainHas(ls, obj, proto) ==
    LET parent == GetPrototypeOf(ls, obj)
    IN  IF parent.o = "null" THEN FALSE
        ELSE IF parent = proto THEN TRUE
        ELSE ChainHas(ls, parent, proto)

\* T instanceof OriginalConstructor
InstanceOfOriginal(ls) == ChainHas(ls, T, P0)

(***************************************************************************)
(* Operations                                                              *)
(***************************************************************************)
NoSrc == [s |-> "none"]

\* what the external iterable holds at first
InitialLive == <<[k |-> "a", v |-> Str("3000")]>>

Init ==
    /\ layers = <<>>
    /\ live = InitialLive
    /\ op = [name |-> "init", key |-> "", n |-> 0, src |-> NoSrc]
    /\ result = Undef

\* SubscriptProxy.applyTo(T, src, o)
ApplyTo(src, o) ==
    LET n       == Len(layers) + 1
        options == ResolveOptions(o)
        norm    == Normalize(src, live)
    IN  /\ Len(layers) < MaxLayers
        /\ op' = [name |-> "applyTo", key |-> "", n |-> n, src |-> src]
        /\ IF norm.t = "TypeError"
           THEN /\ result' = TypeError
                /\ UNCHANGED layers
           ELSE /\ layers' = Append(layers,
                                [kvm     |-> WithFallback(norm.kvm, options.fallback),
                                 options |-> options,
                                 under   |-> NewPrototype(n, options.copyParentProto),
                                 src     |-> src,
                                 opts    |-> o])
                /\ result' = Handle(n)
        /\ UNCHANGED live

\* T[key]
GetOp(key) ==
    /\ op' = [name |-> "get", key |-> key, n |-> 0, src |-> NoSrc]
    /\ result' = Get(layers, live, T, key)
    /\ UNCHANGED <<layers, live>>

\* key in T
HasOp(key) ==
    /\ op' = [name |-> "has", key |-> key, n |-> 0, src |-> NoSrc]
    /\ result' = Has(layers, live, T, key)
    /\ UNCHANGED <<layers, live>>

\* Reflect.ownKeys(instance.proxy) for the instance of layer n
OwnKeysOp(n) ==
    /\ n \in 1..Len(layers)
    /\ op' = [name |-> "ownKeys", key |-> "", n |-> n, src |-> NoSrc]
    /\ result' = ProxyOwnKeys(layers, live, n)
    /\ UNCHANGED <<layers, live>>

\* the caller changes the content of the external iterable
Mutate(lv) ==
    /\ lv # live
    /\ live' = lv
    /\ op' = [name |-> "mutate", key |-> "", n |-> 0, src |-> NoSrc]
    /\ result' = Undef
    /\ UNCHANGED layers

(***************************************************************************)
(* Inputs                                                                  *)
(***************************************************************************)
SeqsUpTo(S, n) == UNION {[1..m -> S] : m \in 0..n}

UniqueKeys(ps) == \A i, j \in 1..Len(ps) : ps[i].k = ps[j].k => i = j

ArraySrc(elems) == [s |-> "array", elems |-> elems]
ObjSrc(ps) == [s |-> "obj", pairs |-> ps]
FnSrc(f) == [s |-> "fn", f |-> f]

Given(fb, ev, ex, cp) ==
    [given |-> TRUE, fallback |-> fb, evalFns |-> ev, except |-> ex, copyParentProto |-> cp]

NoOptions == [given |-> FALSE]

\* keys read by the get and has operations
ReadKeys == {"a", "b", "own", "inh", "toString", "zz", ALL, GENFN}

\* literal sources
LitPairs ==
    {[k |-> "a", v |-> Str("v1")], [k |-> "a", v |-> Null], [k |-> "a", v |-> Fn("f")],
     [k |-> "b", v |-> Str("v2")], [k |-> "b", v |-> Undef],
     [k |-> "toString", v |-> Null],
     [k |-> ALL, v |-> Str("v1")], [k |-> ALL, v |-> Str("")],
     [k |-> ALL, v |-> Fn("h")],
     [k |-> GENFN, v |-> GenFn]}

AsElem(p) == [e |-> "pair", k |-> p.k, v |-> p.v]

OddElems == {[e |-> "str2"], [e |-> "num"], [e |-> "pair", k |-> "a", v |-> Str("v1")]}

LitSources ==
    {ArraySrc(es) : es \in SeqsUpTo({AsElem(p) : p \in LitPairs}, MaxLen)}
    \cup {ArraySrc(es) : es \in SeqsUpTo(OddElems, MaxLen)}
    \cup {ObjSrc(ps) : ps \in {q \in SeqsUpTo(LitPairs, MaxLen) : UniqueKeys(q)}}
    \cup {FnSrc(Fn("f")), FnSrc(Fn("h")), [s |-> "prim"]}

LitOptions ==
    {NoOptions,
     Given(FALSE, TRUE, Except({}), TRUE),
     Given(TRUE, FALSE, Except({}), TRUE),
     Given(TRUE, TRUE, Except({"a"}), TRUE),
     Given(FALSE, FALSE, Except({"a"}), TRUE),
     Given(TRUE, TRUE, Except({}), FALSE),
     Given(TRUE, TRUE, ExceptNotArray, TRUE),
     Given(TRUE, TRUE, ExceptNull, TRUE),
     Given(FALSE, TRUE, ExceptUndefined, TRUE)}

\* one applyTo with a literal source, then reads
NextLit ==
    \/ layers = <<>> /\ \E src \in LitSources, o \in LitOptions : ApplyTo(src, o)
    \/ \E key \in ReadKeys : GetOp(key)
    \/ \E key \in ReadKeys : HasOp(key)
    \/ \E n \in 1..MaxLayers : OwnKeysOp(n)

SpecLit == Init /\ [][NextLit]_vars

\* iterable sources, and mappings that carry the generator marker
IterPairs ==
    {[k |-> "a", v |-> Str("v1")], [k |-> "a", v |-> Null],
     [k |-> "0", v |-> Str("v1")],
     [k |-> GENFN, v |-> GenFn], [k |-> GENFN, v |-> Fn("f")]}

IterSources ==
    {[s |-> "map"], [s |-> "geniter"], [s |-> "baditer"]}
    \cup {ObjSrc(ps) : ps \in {q \in SeqsUpTo(IterPairs, MaxLen) : UniqueKeys(q)}}

LivePairs ==
    {[k |-> "a", v |-> Str("3000")], [k |-> "a", v |-> Str("4000")],
     [k |-> "b", v |-> Fn("f")], [k |-> ALL, v |-> Str("star")]}

LiveSet == SeqsUpTo(LivePairs, MaxLen)

IterOptions ==
    {NoOptions,
     Given(FALSE, TRUE, Except({}), TRUE),
     Given(TRUE, FALSE, Except({}), TRUE),
     Given(TRUE, TRUE, Except({"a"}), TRUE)}

\* one applyTo with an iterable source, reads, and changes of the iterable
NextIter ==
    \/ layers = <<>> /\ \E src \in IterSources, o \in IterOptions : ApplyTo(src, o)
    \/ \E key \in ReadKeys : GetOp(key)
    \/ \E key \in ReadKeys : HasOp(key)
    \/ \E n \in 1..MaxLayers : OwnKeysOp(n)
    \/ \E lv \in LiveSet : Mutate(lv)

SpecIter == Init /\ [][NextIter]_vars

\* chained layers
ChainSources ==
    {ObjSrc(<<[k |-> "a", v |-> Str("v1")]>>),
     ObjSrc(<<[k |-> "a", v |-> Fn("f")], [k |-> "b", v |-> Str("v2")]>>),
     ObjSrc(<<[k |-> "zz", v |-> Null]>>),
     FnSrc(Fn("h")),
     [s |-> "geniter"]}

ChainOptions ==
    {NoOptions,
     Given(FALSE, TRUE, Except({}), TRUE),
     Given(TRUE, TRUE, Except({}), FALSE),
     Given(FALSE, TRUE, Except({}), FALSE),
     Given(TRUE, TRUE, Except({"a"}), TRUE)}

ChainKeys == {"a", "b", "own", "inh", "zz"}

Next ==
    \/ \E src \in ChainSources, o \in ChainOptions : ApplyTo(src, o)
    \/ \E key \in ChainKeys : GetOp(key)
    \/ \E key \in ChainKeys : HasOp(key)
    \/ \E n \in 1..MaxLayers : OwnKeysOp(n)

Spec == Init /\ [][Next]_vars

(***************************************************************************)
(* Vocabulary of the properties, stated on the arguments of the calls      *)
(***************************************************************************)
\* the options the caller asked for, absent ones at their documented default
Asked(L) ==
    IF L.opts.given THEN L.opts
    ELSE [given |-> FALSE, fallback |-> TRUE, evalFns |-> TRUE,
          except |-> Except({}), copyParentProto |-> TRUE]

\* the source is a literal one: a plain mapping or a list of pairs
IsLiteral(src) ==
    \/ src.s = "obj"
    \/ src.s = "array" /\ \A i \in 1..Len(src.elems) : src.elems[i].e = "pair"

\* the pairs a literal source is written with
SrcPairs(src) == IF src.s = "obj" THEN src.pairs ELSE PairsOf(src.elems)

SrcHasKey(src, key) == \E i \in 1..Len(SrcPairs(src)) : SrcPairs(src)[i].k = key

\* the value a literal source maps key to (the last pair written for it)
MappedValue(src, key) ==
    LET ps == SrcPairs(src)
        at == CHOOSE i \in 1..Len(ps) :
                  /\ ps[i].k = key
                  /\ \A j \in 1..Len(ps) : ps[j].k = key => j <= i
    IN  ps[at].v

\* the iterable currently yields a pair for key
Yields(lv, key) == \E i \in 1..Len(lv) : lv[i].k = key

\* the value of the last pair the iterable currently yields for key
YieldedValue(lv, key) ==
    LET at == CHOOSE i \in 1..Len(lv) :
                  /\ lv[i].k = key
                  /\ \A j \in 1..Len(lv) : lv[j].k = key => j <= i
    IN  lv[at].v

\* the literal source maps the generator marker to a generator function
HasGenerator(src) ==
    IsLiteral(src) /\ SrcHasKey(src, GENFN) /\ MappedValue(src, GENFN) = GenFn

\* what calling a user function with (target, key, T) returns (a generator
\* function returns a generator object)
UserCall(f, target, key) ==
    IF f.t # "fn" THEN GenObj
    ELSE IF f.id = "h" /\ key \notin HKeys THEN Undef
    ELSE Called(f.id, target, key, T)

\* the mapped value as a read resolves it
Resolved(v, L, key) ==
    IF Asked(L).evalFns /\ IsFn(v) THEN UserCall(v, L.under, key) ELSE v

\* the same, with a mapped null read as undefined
ResolvedOrUndef(v, L, key) == IF Nullish(v) THEN Undef ELSE Resolved(v, L, key)

\* lookup of key on the chain the target had before any applyTo
NativeLookup(key) ==
    IF HasKey(P0Own, key) THEN OwnValue(P0Own, key)
    ELSE IF HasKey(OPOwn, key) THEN OwnValue(OPOwn, key)
    ELSE Undef

NativeHas(key) == HasKey(P0Own, key) \/ HasKey(OPOwn, key)

IsOwn(key) == HasKey(TOwn, key)

\* the caller excluded no key: an empty list, null, or no except at all
NothingExcluded(L) == Asked(L).except.kind # "other" /\ Asked(L).except.ks = {}

ReadOf(name) == op.name = name /\ Len(layers) >= 1

(***************************************************************************)
(* C1                                                                      *)
(***************************************************************************)
C1_Case ==
    /\ ReadOf("get") /\ Len(layers) = 1
    /\ IsLiteral(layers[1].src)
    /\ NothingExcluded(layers[1])
    /\ ~\E i \in 1..Len(TOwn) : SrcHasKey(layers[1].src, TOwn[i].k)

\* C1 as stated: after applyTo(T, M) with a literal source M whose keys are
\* not own properties of T, T.K is the mapped value for every key K of M
\* (the result of calling it when it is callable and evalFns is true), and
\* every own property of T still reads its own value.
C1_Original ==
    C1_Case =>
        /\ SrcHasKey(layers[1].src, op.key) =>
               result = Resolved(MappedValue(layers[1].src, op.key), layers[1], op.key)
        /\ IsOwn(op.key) => result = OwnValue(TOwn, op.key)

\* C1 as amended: the same for every key K of M that is not a marker key and
\* whose mapped value is neither null nor undefined, whatever else M holds (a
\* generator under the generator marker included); every own property of T
\* still reads its own value.
C1_Amended ==
    C1_Case =>
        /\ ( /\ SrcHasKey(layers[1].src, op.key)
             /\ op.key \notin {ALL, GENFN}
             /\ ~Nullish(MappedValue(layers[1].src, op.key)) )
           => result = Resolved(MappedValue(layers[1].src, op.key), layers[1], op.key)
        /\ IsOwn(op.key) => result = OwnValue(TOwn, op.key)

\* a mapping that holds a generator yielding another value for the same key
\* was installed, and the key read back the value the mapping gives it
C1_Witness ==
    /\ C1_Case
    /\ HasGenerator(layers[1].src)
    /\ SrcHasKey(layers[1].src, op.key)
    /\ op.key \notin {ALL, GENFN}
    /\ Yields(live, op.key)
    /\ YieldedValue(live, op.key) # MappedValue(layers[1].src, op.key)
    /\ MappedValue(layers[1].src, op.key) = Fn("f")
    /\ result = Called("f", layers[1].under, op.key, T)

(***************************************************************************)
(* C2                                                                      *)
(***************************************************************************)
\* C2: a key listed in except is never resolved by the literal source, the
\* generator source or the user wildcard handler; reading it gives what the
\* original parent chain gives, or undefined.
C2_ExcludedKeyIsNative ==
    ( /\ ReadOf("get") /\ Len(layers) = 1
      /\ Asked(layers[1]).except.kind # "other"
      /\ op.key \in Asked(layers[1]).except.ks
      /\ ~IsOwn(op.key)
      /\ result # TypeError )
    => result = NativeLookup(op.key)

(***************************************************************************)
(* C6                                                                      *)
(***************************************************************************)
\* the wildcard handler the caller supplied: the callable source itself, or the
\* callable a literal source maps the marker key to
HasUserWildcard(src) ==
    \/ src.s = "fn"
    \/ IsLiteral(src) /\ SrcHasKey(src, ALL) /\ IsFn(MappedValue(src, ALL))

UserWildcard(src) == IF src.s = "fn" THEN src.f ELSE MappedValue(src, ALL)

\* key is none of the keys the layer claims
Unclaimed(L, lv, key) ==
    /\ RelevantKeys(L, lv).t = "ok"
    /\ ~Includes(RelevantKeys(L, lv).keys, key)

C6_Case ==
    /\ ReadOf("get") /\ Len(layers) = 1
    /\ Asked(layers[1]).fallback
    /\ HasUserWildcard(layers[1].src)
    /\ Unclaimed(layers[1], live, op.key)
    /\ ~IsOwn(op.key)

\* C6: with fallback = true and a user wildcard handler, reading a key the
\* layer does not claim returns the handler's result when that is not
\* undefined, and the result of native inherited lookup when it is.
C6_WildcardThenNative ==
    C6_Case =>
        LET response == UserCall(UserWildcard(layers[1].src), layers[1].under, op.key)
        IN  result = IF response # Undef THEN response ELSE NativeLookup(op.key)

\* the handler declined a key that the original chain defines
C6_Witness ==
    /\ C6_Case
    /\ UserCall(UserWildcard(layers[1].src), layers[1].under, op.key) = Undef
    /\ op.key = "inh"
    /\ result = Str("inherited value")

(***************************************************************************)
(* C7                                                                      *)
(***************************************************************************)
C7_Case ==
    /\ ReadOf("get") /\ Len(layers) = 1
    /\ IsLiteral(layers[1].src)
    /\ SrcHasKey(layers[1].src, op.key)
    /\ IsFn(MappedValue(layers[1].src, op.key))
    /\ RelevantKeys(layers[1], live).t = "ok"
    /\ Includes(RelevantKeys(layers[1], live).keys, op.key)
    /\ ~IsOwn(op.key)

\* C7: reading a claimed key whose mapped value is callable returns, with
\* evalFns = true, the result of calling it with (underlying prototype, key,
\* receiver) and, with evalFns = false, the callable itself.
C7_EvalToggle ==
    C7_Case =>
        LET f == MappedValue(layers[1].src, op.key)
        IN  result = IF Asked(layers[1]).evalFns
                     THEN Called(f.id, layers[1].under, op.key, T)
                     ELSE f

\* a callable was read back uncalled
C7_Witness ==
    /\ C7_Case
    /\ ~Asked(layers[1]).evalFns
    /\ result = Fn("f")

(***************************************************************************)
(* C10                                                                     *)
(***************************************************************************)
\* C10: neither applyTo nor a later get, existence check or enumeration ends
\* in an error of the layer's own making (the user functions of the model
\* never throw).
C10_NoErrorOfItsOwn == result # TypeError

(***************************************************************************)
(* C3                                                                      *)
(***************************************************************************)
\* C3: once an iterable (a Map, or an object with Symbol.iterator) whose
\* first element was a pair is installed, and so stored under the generator
\* marker, every read of T.K returns what the iterable yields for K at that
\* moment.
C3_ReadsLiveIterable ==
    ( /\ ReadOf("get") /\ Len(layers) = 1
      /\ layers[1].src.s \in {"map", "geniter"}
      /\ HasKey(layers[1].kvm, GENFN)
      /\ NothingExcluded(layers[1])
      /\ Yields(live, op.key)
      /\ op.key \notin {ALL, GENFN}
      /\ ~IsOwn(op.key) )
    => result = Resolved(YieldedValue(live, op.key), layers[1], op.key)

(***************************************************************************)
(* C9                                                                      *)
(***************************************************************************)
RECURSIVE Dedup(_)
\* the keys of ks, each once, at its first position
Dedup(ks) ==
    IF ks = <<>> THEN <<>>
    ELSE LET front == Dedup(SubSeq(ks, 1, Len(ks) - 1))
             last  == ks[Len(ks)]
         IN  IF Includes(front, last) THEN front ELSE Append(front, last)

\* C9: enumerating a layer gives its literal keys, without the excluded and
\* the marker keys, in order, then the keys its generator source yields, each
\* key once.
C9_EnumerationExact ==
    ( /\ ReadOf("ownKeys")
      /\ Asked(layers[op.n]).except.kind # "other" )
    => LET L        == layers[op.n]
           literal  == SelectSeq(KeysOf(L.kvm),
                           LAMBDA key : /\ key \notin Asked(L).except.ks
                                        /\ key \notin {ALL, GENFN})
           yielded  == IF IsGenFn(PlainGet(L.kvm, GENFN)) THEN KeysOf(live) ELSE <<>>
       IN  result = KeyList(Dedup(literal \o yielded))

(***************************************************************************)
(* C4                                                                      *)
(***************************************************************************)
\* C4 as stated: whatever applyTo calls were made, with copyParentProto true
\* or false, T instanceof OriginalConstructor is true.
C4_Original == InstanceOfOriginal(layers)

\* C4 as amended: T instanceof OriginalConstructor is true exactly when the
\* first applyTo call on T copied the parent prototype, whatever the later
\* calls did.
C4_Amended ==
    Len(layers) >= 1 =>
        (InstanceOfOriginal(layers) <=> Asked(layers[1]).copyParentProto)

\* a second layer that reuses its parent was put on a first one that copied
C4_Witness ==
    /\ Len(layers) = 2
    /\ Asked(layers[1]).copyParentProto
    /\ ~Asked(layers[2]).copyParentProto
    /\ InstanceOfOriginal(layers)

(***************************************************************************)
(* C5, C8: what a layer claims, stated on the arguments of its applyTo     *)
(***************************************************************************)
\* the layer was given key: by its literal source, unless excluded or a
\* marker, or by the pairs its generator (the iterable, or the generator a
\* literal source holds under the generator marker) yields now
Supplies(L, lv, key) ==
    IF IsLiteral(L.src)
    THEN \/ /\ SrcHasKey(L.src, key)
            /\ key \notin Asked(L).except.ks
            /\ key \notin {ALL, GENFN}
         \/ HasGenerator(L.src) /\ Yields(lv, key)
    ELSE IF L.src.s = "geniter" THEN Yields(lv, key)
    ELSE FALSE

\* the value the layer was given for key
Supplied(L, lv, key) ==
    IF IsLiteral(L.src) /\ SrcHasKey(L.src, key)
    THEN MappedValue(L.src, key) ELSE YieldedValue(lv, key)

\* the layer's answer for a key it was not given stays open: it falls back and
\* its user wildcard handler, if any, declines the key
Transparent(L, key) ==
    /\ Asked(L).fallback
    /\ HasUserWildcard(L.src) => UserCall(UserWildcard(L.src), L.under, key) = Undef

C5_Case == ReadOf("get") /\ Len(layers) = 2

C8_ExistenceConsistent ==
    ReadOf("has") =>
        LET claimed == \E n \in 1..Len(layers) : Supplies(layers[n], live, op.key)
            native  == IsOwn(op.key) \/ NativeHas(op.key)
        IN  result = Bool(claimed \/ native)

\* a key that only the deeper of two layers claims was found
C8_Witness ==
    /\ ReadOf("has") /\ Len(layers) = 2
    /\ Supplies(layers[1], live, op.key)
    /\ ~Supplies(layers[2], live, op.key)
    /\ ~IsOwn(op.key) /\ ~NativeHas(op.key)
    /\ ~Asked(layers[2]).fallback
    /\ result = Bool(TRUE)

(***************************************************************************)
(* C11                                                                     *)
(***************************************************************************)
Markers == {ALL, GENFN}

\* C11: the two marker keys are never exposed as property names: no
\* enumeration lists one, no existence check finds one, and no read of one
\* is resolved as a mapped entry (it gives what the original chain gives).
C11_MarkersNeverExposed ==
    /\ (ReadOf("ownKeys") /\ result.t = "keys")
       => \A key \in Markers : ~Includes(result.v, key)
    /\ (ReadOf("has") /\ op.key \in Markers /\ ~IsOwn(op.key) /\ result # TypeError)
       => result = Bool(NativeHas(op.key))
    /\ ( /\ ReadOf("get") /\ Len(layers) = 1
         /\ op.key \in Markers /\ ~IsOwn(op.key)
         /\ ~HasUserWildcard(layers[1].src)
         /\ result # TypeError )
       => result = NativeLookup(op.key)

(***************************************************************************)
(* C12                                                                     *)
(***************************************************************************)
\* a value that `if (handler)` takes as no handler
NoHandler(v) ==
    \/ v = Undef \/ v = Null \/ v = Bool(FALSE)
    \/ v = Num(0) \/ v = NaN \/ v = Str("")

\* the layer was installed with fallback = false and without a handler under
\* the wildcard marker (no entry, or an entry that is no handler), and the key
\* read is neither claimed by it nor an own property of T
C12_Case ==
    /\ ReadOf("get") /\ Len(layers) = 1
    /\ ~Asked(layers[1]).fallback
    /\ Asked(layers[1]).except.kind # "other"
    /\ IsLiteral(layers[1].src) \/ layers[1].src.s = "prim"
    /\ (IsLiteral(layers[1].src) /\ SrcHasKey(layers[1].src, ALL))
       => NoHandler(MappedValue(layers[1].src, ALL))
    /\ ~Supplies(layers[1], live, op.key)
    /\ ~IsOwn(op.key)

\* C12 as stated: with fallback = false and no user wildcard handler, reading
\* a key the layer does not claim gives the result of native inherited
\* lookup, so a value defined deeper in the chain is returned.
C12_Original == C12_Case => result = NativeLookup(op.key)

\* C12 as amended: with fallback = false and no wildcard handler (no entry
\* under the marker, or a falsy one), reading a key the layer does not claim
\* gives undefined: the undefined the get trap
\* returns is the result of the read, and a value defined deeper in the
\* chain is hidden.
C12_Amended == C12_Case => result = Undef

\* a key the original chain defines was read through such a layer
C12_Witness ==
    /\ C12_Case
    /\ op.key = "inh"
    /\ NativeLookup("inh") = Str("inherited value")
    /\ result = Undef

(***************************************************************************)
(* C13                                                                     *)
(***************************************************************************)
\* the literal source of the only layer maps key to null or undefined, and
\* the key is neither excluded nor a marker nor an own property of T
NullishEntry(key) ==
    /\ Len(layers) = 1
    /\ IsLiteral(layers[1].src)
    /\ ~SrcHasKey(layers[1].src, GENFN)
    /\ Asked(layers[1]).except.kind # "other"
    /\ Supplies(layers[1], live, key)
    /\ Nullish(MappedValue(layers[1].src, key))
    /\ ~IsOwn(key)

\* C13: a key whose literal mapped value is null or undefined is enumerated,
\* its existence check is true, and without a generator source reading it
\* gives undefined.
C13_NullishEntryReadsUndefined ==
    /\ ReadOf("ownKeys")
       => \A key \in ReadKeys :
              NullishEntry(key) => result.t = "keys" /\ Includes(result.v, key)
    /\ (ReadOf("has") /\ NullishEntry(op.key)) => result = Bool(TRUE)
    /\ (ReadOf("get") /\ NullishEntry(op.key)) => result = Undef

====
